---- MODULE Spec2Model ----
(***************************************************************************)
(* State-machine models of classes of advanced-dev-utils.                  *)
(*                                                                         *)
(* SmartCache (cache/SmartCache.ts): the Map `cache` is a sequence of      *)
(* entries in insertion order (a JavaScript Map iterates in insertion      *)
(* order, and Map.set on a stored key keeps the key's position);           *)
(* Date.now() is the variable `now`, read once per operation.              *)
(*                                                                         *)
(* AsyncQueue (async/AsyncQueue.ts): the record `aq`.  A step is one task  *)
(* of the event loop (a call of the user, a timer, the settling of a task  *)
(* function's promise) with the microtasks it triggers.                    *)
(*                                                                         *)
(* ArrayUtils (array/ArrayUtils.ts): the record `au` holds the arguments   *)
(* of one call of a static function and what it returned.                  *)
(*                                                                         *)
(* RetryHandler (retry/RetryHandler.ts): the record `rh` holds the fields  *)
(* of a handler and the progress of each call of execute; the record `cb`  *)
(* holds the closure of one createCircuitBreaker, its clock and its calls  *)
(* in flight.                                                              *)
(*                                                                         *)
(* RateLimiter (rate-limit/RateLimiter.ts): the record `rl`, with its own  *)
(* clock and the times at which consume() allowed a request.               *)
(*                                                                         *)
(* EventEmitter (events/EventEmitter.ts): the record `ee` holds the        *)
(* listeners of one event in the order of this.events[event]; an emit is   *)
(* one step, with everything its listeners do.                             *)
(*                                                                         *)
(* RealtimeStream (realtime/RealtimeStream.ts): the record `rs` holds the  *)
(* fields of a stream, the WebSocket objects it created, its timers and    *)
(* the messages that reached a socket, in order.                           *)
(*                                                                         *)
(* APIHelper (api/APIHelper.ts): the record `ah` holds the response cache, *)
(* the table of requests in flight and the progress of each call of get.   *)
(*                                                                         *)
(* PerformanceMonitor (performance/PerformanceMonitor.ts): the record `pm` *)
(* holds the recorded metrics and the outcome of the last call; a call of  *)
(* getAnalytics is one step, with the calls it makes on a bounded stack.   *)
(***************************************************************************)
EXTENDS Integers, Sequences, FiniteSets, TLC

VARIABLES
    maxSize,         \* this.maxSize
    ttl,             \* this.ttl
    cache,           \* this.cache : Map<string, SmartCacheEntry>, in insertion order
    accessPatterns,  \* this.accessPatterns : key -> access timestamps (<<>>: no Map entry)
    hitCount,        \* this.hitCount
    missCount,       \* this.missCount
    now,             \* Date.now()
    last,            \* the most recent call: its name, argument, result and path
    aq,              \* the AsyncQueue: its fields and the progress of each task
    au,              \* ArrayUtils: the arguments and the result of one call
    rh,              \* the RetryHandler: its fields and its calls of execute
    cb,              \* the circuit breaker: its closure, its clock and its calls
    rl,              \* the RateLimiter: its fields, its clock, the requests allowed
    ee,              \* the EventEmitter: the listeners of one event, the last call
    rs,              \* the RealtimeStream: its fields, sockets, timers and wire
    ah,              \* the APIHelper: its cache, its requests in flight, the calls of get
    pm               \* the PerformanceMonitor: its metrics, its operations, the last call

cacheVars == <<maxSize, ttl, cache, accessPatterns, hitCount, missCount, now, last>>

vars == <<cacheVars, aq, au, rh, cb, rl, ee, rs, ah, pm>>

\* What the steps of one class leave alone: the variables of the other classes.
beyondCache == <<aq, au, rh, cb, rl, ee, rs, ah, pm>>

beyondQueue == <<cacheVars, au, rh, cb, rl, ee, rs, ah, pm>>

beyondArray == <<cacheVars, aq, rh, cb, rl, ee, rs, ah, pm>>

beyondRetry == <<cacheVars, aq, au, cb, rl, ee, rs, ah, pm>>

beyondBreaker == <<cacheVars, aq, au, rh, rl, ee, rs, ah, pm>>

beyondLimiter == <<cacheVars, aq, au, rh, cb, ee, rs, ah, pm>>

beyondEmitter == <<cacheVars, aq, au, rh, cb, rl, rs, ah, pm>>

beyondStream == <<cacheVars, aq, au, rh, cb, rl, ee, ah, pm>>

beyondApi == <<cacheVars, aq, au, rh, cb, rl, ee, rs, pm>>

beyondMonitor == <<cacheVars, aq, au, rh, cb, rl, ee, rs, ah>>

----------------------------------------------------------------------------
(* Bounds of the model *)

MaxTime == 2
MaxPattern == 2
MaxCount == 2
MaxTimeSizes == 1
MaxTimeTies == 8
MaxTasks == 3
MaxDrainTasks == 2
MaxLength == 5
MaxChunkSize == 3
MaxHits == 102
MaxCalls == 2
MaxElapsed == 4
MaxLimiterTime == 4
MaxListeners == 3
MaxSockets == 3
MaxMessages == 3
MaxGets == 3
MaxApiTime == 2
MaxMetrics == 4
MaxStack == 6

(* Constants of the program *)

DefaultTtl == 300000
DefaultMaxSize == 1000
TimeWindow == 60000
MaxAccessHistory == 100
TopKeysLimit == 10
HotKeyThreshold == 50
DefaultConcurrency == 1
DefaultMaxRetries == 3
DefaultBaseDelay == 1000
DefaultRequests == 100
DefaultWindowMs == 60000
DefaultMaxReconnectAttempts == 5
DefaultBatchSize == 100
DefaultCacheTTL == 300000
SlowAverage == 500

(* Inputs *)

Keys == {"a", "b"}
Values == {1, 22}
Tags == {"t1", "t2"}
MaxSizeOptions == {-1, 0, 1, 2}

\* The third argument of set(key, value, third): nothing, a string[] of tags,
\* or the options object { ttl } that the README passes.
NoThird == [kind |-> "undefined", tags |-> {}, ttl |-> 0]
TagList(ts) == [kind |-> "tags", tags |-> ts, ttl |-> 0]
OptionsObject(t) == [kind |-> "options", tags |-> {}, ttl |-> t]
Thirds == {NoThird, TagList({"t1"}), TagList({"t2"}), OptionsObject(2)}
SizeKeys == {"a", "b", "c"}
EvictKeys == {"a", "b", "c", "d", "e", "f"}

Undefined == <<>>
Some(v) == <<v>>

----------------------------------------------------------------------------
(* Map helpers *)

Has(c, k) == \E i \in 1..Len(c) : c[i].key = k

IndexOf(c, k) == CHOOSE i \in 1..Len(c) : c[i].key = k

Lookup(c, k) == c[IndexOf(c, k)]

\* A variant of Map.prototype.set that keeps the tags of the entry it replaces.
MapSetKeepingTags(c, e) ==
    IF Has(c, e.key)
    THEN [c EXCEPT ![IndexOf(c, e.key)] = [e EXCEPT !.tags = Lookup(c, e.key).tags]]
    ELSE Append(c, e)

\* Map.prototype.set: a stored key keeps its position, a new key goes last.
MapSet(c, e) ==
    IF Has(c, e.key)
    THEN [c EXCEPT ![IndexOf(c, e.key)] = e]
    ELSE Append(c, e)

\* Map.prototype.delete, for a set of keys.
MapDeleteAll(c, ks) == SelectSeq(c, LAMBDA e : e.key \notin ks)

KeysOf(c) == {c[i].key : i \in 1..Len(c)}

----------------------------------------------------------------------------
(* Pure helpers of SmartCache *)

\* new Blob([JSON.stringify(value)]).size for the numbers used as values.
calculateSize(v) == IF v < 10 THEN 1 ELSE 2

\* A variant of the push that, at the cap, drops the access it was given.
PushAccessKeepsOldest(pattern, t) ==
    IF Len(pattern) >= MaxAccessHistory THEN pattern ELSE Append(pattern, t)

\* pattern.push(now); if (pattern.length > 100) pattern.shift()
PushAccess(pattern, t) ==
    LET p == Append(pattern, t)
    IN  IF Len(p) > MaxAccessHistory THEN Tail(p) ELSE p

updateAccessPattern(ap, k, t) == [ap EXCEPT ![k] = PushAccess(ap[k], t)]

\* The number of accesses of the last minute; getAccessFrequency returns it
\* divided by 60, 0 when the history has fewer than two accesses.
RecentAccesses(ap, k, t) ==
    IF Len(ap[k]) < 2 THEN 0
    ELSE Cardinality({i \in 1..Len(ap[k]) : t - ap[k][i] < TimeWindow})

\* The eviction score of entry e:
\*   age*0.3 + timeSinceAccess*0.4 + 0.2/(accessCount+1) + size/1024*0.1 - frequency*0.3
\* as the exact fraction ScoreNum / (51200 * (accessCount + 1)).  For the ages
\* of these models (a few milliseconds) the doubles the code computes are in
\* the same order as the fractions.
ScoreNum(e, ap, t) ==
    (e.accessCount + 1)
        * ( 15360 * (t - e.timestamp)
          + 20480 * (t - e.lastAccessed)
          + 5 * e.size
          - 256 * RecentAccesses(ap, e.key, t) )
    + 10240

\* scores.sort((a, b) => b.score - a.score): descending and stable.  The
\* result maps each position of the Map to its rank (1: evicted first); a
\* position comes before another when its score (num / den) is higher, or
\* equal and it is earlier in the Map.
RankOf(num, den, n) ==
    [i \in 1..n |->
        1 + Cardinality({j \in 1..n :
              /\ j # i
              /\ \/ num[j] * den[i] > num[i] * den[j]
                 \/ (num[j] * den[i] = num[i] * den[j] /\ j < i)})]

Ranking(c, ap, t) ==
    RankOf([i \in 1..Len(c) |-> ScoreNum(c[i], ap, t)],
           [i \in 1..Len(c) |-> c[i].accessCount + 1],
           Len(c))

\* A variant that evicts half of the entries.
EvictHalf(n) == (n + 1) \div 2

\* Math.ceil(this.cache.size * 0.2)
EvictCount(n) == (n + 4) \div 5

\* The keys intelligentEviction deletes: the first evictCount of the ranking.
FirstRanked(c, rank, count) == {c[i].key : i \in {j \in 1..Len(c) : rank[j] <= count}}

Victims(c, ap, t) == FirstRanked(c, Ranking(c, ap, t), EvictCount(Len(c)))

----------------------------------------------------------------------------
(* The operations, as functions of the store [cache, accessPatterns] *)

Store(c, ap) == [cache |-> c, accessPatterns |-> ap]

\* intelligentEviction(): delete the victims and their access history.
DeleteWithHistory(st, vs) ==
    Store(MapDeleteAll(st.cache, vs),
          [k \in DOMAIN st.accessPatterns |->
              IF k \in vs THEN <<>> ELSE st.accessPatterns[k]])

intelligentEviction(st, t) ==
    DeleteWithHistory(st, Victims(st.cache, st.accessPatterns, t))

\* set(), lines 84-87: if (this.cache.size >= this.maxSize) await this.intelligentEviction()
NeedsEviction(st, max) == Len(st.cache) >= max

\* set(), lines 89-99: build the entry, cache.set, updateAccessPattern.
NewEntry(k, v, third, t) ==
    [key |-> k, value |-> v, timestamp |-> t, accessCount |-> 0,
     lastAccessed |-> t, size |-> calculateSize(v), tags |-> third]

InsertEntry(st, k, v, third, t) ==
    Store(MapSet(st.cache, NewEntry(k, v, third, t)),
          updateAccessPattern(st.accessPatterns, k, t))

\* One awaited set(key, value, third): the store it leaves, with the number
\* of entries its eviction deleted.
SetAfter(st, evicted, k, v, third, t) ==
    [store |-> InsertEntry(evicted, k, v, third, t),
     deleted |-> Len(st.cache) - Len(evicted.cache)]

SetResult(st, max, k, v, third, t) ==
    SetAfter(st, IF NeedsEviction(st, max) THEN intelligentEviction(st, t) ELSE st,
             k, v, third, t)

\* mset(): every set(key, value) is called before any of them resumes.  A call
\* that evicts stops at its await and is resumed, in call order, once the
\* calls have all been made; a call that does not evict runs to its end at once.
RECURSIVE MsetCalls(_, _, _, _, _, _)
MsetCalls(st, max, entries, t, pending, deleted) ==
    IF entries = <<>> THEN [store |-> st, pending |-> pending, deleted |-> deleted]
    ELSE IF NeedsEviction(st, max)
         THEN MsetCalls(intelligentEviction(st, t), max, Tail(entries), t,
                        Append(pending, Head(entries)),
                        deleted + EvictCount(Len(st.cache)))
         ELSE MsetCalls(InsertEntry(st, Head(entries).key, Head(entries).value, NoThird, t),
                        max, Tail(entries), t, pending, deleted)

RECURSIVE MsetResume(_, _, _)
MsetResume(st, pending, t) ==
    IF pending = <<>> THEN st
    ELSE MsetResume(InsertEntry(st, Head(pending).key, Head(pending).value, NoThird, t),
                    Tail(pending), t)

MsetAfter(called, t) ==
    [store |-> MsetResume(called.store, called.pending, t),
     deleted |-> called.deleted, awaited |-> called.pending # <<>>]

MsetResult(st, max, entries, t) ==
    MsetAfter(MsetCalls(st, max, entries, t, <<>>, 0), t)

\* Variants of the expiry test: one tick late, one tick early.
IsExpiredLate(e, t, life) == t - e.timestamp > life + 1

IsExpiredEarly(e, t, life) == t - e.timestamp >= life

\* get(), line 48
IsExpired(e, t, life) == t - e.timestamp > life

\* What get(key) returns.
GetValue(c, k, t, life) ==
    IF ~Has(c, k) THEN Undefined
    ELSE IF IsExpired(Lookup(c, k), t, life) THEN Undefined
    ELSE Some(Lookup(c, k).value)

\* A variant that counts a hit twice.
TouchTwice(e, t) == [e EXCEPT !.accessCount = @ + 2, !.lastAccessed = t]

\* get(), lines 55-58, on a hit
Touch(e, t) == [e EXCEPT !.accessCount = @ + 1, !.lastAccessed = t]

\* invalidateByTag(): the loop stops with a TypeError at the first entry whose
\* tags is an object without includes(); entries before it are processed.
FirstNotArray(c) ==
    IF \E i \in 1..Len(c) : c[i].tags.kind = "options"
    THEN CHOOSE i \in 1..Len(c) :
            /\ c[i].tags.kind = "options"
            /\ \A j \in 1..(i - 1) : c[j].tags.kind # "options"
    ELSE Len(c) + 1

\* A variant that deletes only the first tagged entry.
TaggedFirstOnly(c, tag) ==
    {c[i].key : i \in {j \in 1..(FirstNotArray(c) - 1) :
                          /\ c[j].tags.kind = "tags" /\ tag \in c[j].tags.tags
                          /\ \A h \in 1..(j - 1) :
                                ~(c[h].tags.kind = "tags" /\ tag \in c[h].tags.tags)}}

Tagged(c, tag) ==
    {c[i].key : i \in {j \in 1..(FirstNotArray(c) - 1) :
                          c[j].tags.kind = "tags" /\ tag \in c[j].tags.tags}}

InvalidateThrows(c) == FirstNotArray(c) <= Len(c)

\* A variant that sweeps an entry at the last moment of its life.
ExpiredKeysEarly(c, t, life) ==
    {c[i].key : i \in {j \in 1..Len(c) : t - c[j].timestamp >= life}}

\* cleanup(): the keys of the expired entries.
ExpiredKeys(c, t, life) ==
    {c[i].key : i \in {j \in 1..Len(c) : IsExpired(c[j], t, life)}}

\* getStats(), lines 154-155: the sum of the entries' sizes.
RECURSIVE MemoryUsage(_)
MemoryUsage(c) == IF c = <<>> THEN 0 ELSE Head(c).size + MemoryUsage(Tail(c))

\* getStats(), lines 157-158: a copy of the entries, sorted by accessCount,
\* descending and stable.
SortedByAccess(c) ==
    LET rank == [i \in 1..Len(c) |->
                   1 + Cardinality({j \in 1..Len(c) :
                         \/ c[j].accessCount > c[i].accessCount
                         \/ (c[j].accessCount = c[i].accessCount /\ j < i)})]
    IN  [r \in 1..Len(c) |-> c[CHOOSE i \in 1..Len(c) : rank[i] = r]]

\* .slice(0, 10).map(([key]) => key)
TopKeys(c) ==
    LET sorted == SortedByAccess(c)
        n == IF Len(c) < TopKeysLimit THEN Len(c) ELSE TopKeysLimit
    IN  [r \in 1..n |-> sorted[r].key]

\* hitCount / (hitCount + missCount) as the pair <<numerator, denominator>>,
\* 0 when nothing was requested.
HitRate(hits, misses) ==
    IF hits + misses > 0 THEN <<hits, hits + misses>> ELSE <<0, 1>>

\* generateInsights(): which of its three messages it pushes.
Insights(c, ap, hits, misses, max) ==
    [lowHitRate |-> 2 * HitRate(hits, misses)[1] < HitRate(hits, misses)[2],
     highMemory |-> 5 * MemoryUsage(c) > 4 * max,
     hotKeys |-> {k \in DOMAIN ap : Len(ap[k]) > HotKeyThreshold}]

\* What getStats() returns.
Stats(c, ap, hits, misses, max) ==
    [hitRate |-> HitRate(hits, misses),
     size |-> Len(c),
     memoryUsage |-> MemoryUsage(c),
     topKeys |-> TopKeys(c),
     insights |-> Insights(c, ap, hits, misses, max)]

\* A finished call: its name, its key or tag, what it returned, the path it
\* took and the number of entries it deleted from the Map.
Call(op, key, ret, path, deleted) ==
    [op |-> op, key |-> key, ret |-> ret, path |-> path, deleted |-> deleted]

----------------------------------------------------------------------------
(* The state machine *)

AllKeys == {"a", "b", "c", "d", "e", "f"}

\* constructor(options), lines 20-21: options.x || default
Construct(options) ==
    /\ ttl = (IF options.ttl = 0 THEN DefaultTtl ELSE options.ttl)
    /\ maxSize = (IF options.maxSize = 0 THEN DefaultMaxSize ELSE options.maxSize)
    /\ cache = <<>>
    /\ accessPatterns = [k \in AllKeys |-> <<>>]
    /\ hitCount = 0
    /\ missCount = 0
    /\ now = 0
    /\ last = Call("constructor", "", Undefined, "", 0)

Set(k, v, third) ==
    \E res \in {SetResult(Store(cache, accessPatterns), maxSize, k, v, third, now)} :
        /\ cache' = res.store.cache
        /\ accessPatterns' = res.store.accessPatterns
        /\ last' = Call("set", k, Undefined,
                        IF Len(cache) >= maxSize THEN "evicted" ELSE "direct",
                        res.deleted)
        /\ UNCHANGED <<beyondCache, maxSize, ttl, hitCount, missCount, now>>

Mset(entries) ==
    \E res \in {MsetResult(Store(cache, accessPatterns), maxSize, entries, now)} :
        /\ cache' = res.store.cache
        /\ accessPatterns' = res.store.accessPatterns
        /\ last' = Call("mset", "", Undefined,
                        IF res.awaited THEN "evicted" ELSE "direct",
                        res.deleted)
        /\ UNCHANGED <<beyondCache, maxSize, ttl, hitCount, missCount, now>>

GetAbsent(k) ==
    /\ ~Has(cache, k)
    /\ missCount' = missCount + 1
    /\ last' = Call("get", k, GetValue(cache, k, now, ttl), "absent", 0)
    /\ UNCHANGED <<beyondCache, maxSize, ttl, cache, accessPatterns, hitCount, now>>

\* A variant that reports the miss and keeps the expired entry.
GetExpiredKeeps(k) ==
    /\ Has(cache, k)
    /\ IsExpired(Lookup(cache, k), now, ttl)
    /\ missCount' = missCount + 1
    /\ last' = Call("get", k, GetValue(cache, k, now, ttl), "expired", 0)
    /\ UNCHANGED <<beyondCache, maxSize, ttl, cache, accessPatterns, hitCount, now>>

GetExpired(k) ==
    /\ Has(cache, k)
    /\ IsExpired(Lookup(cache, k), now, ttl)
    /\ cache' = MapDeleteAll(cache, {k})
    /\ missCount' = missCount + 1
    /\ last' = Call("get", k, GetValue(cache, k, now, ttl), "expired", 1)
    /\ UNCHANGED <<beyondCache, maxSize, ttl, accessPatterns, hitCount, now>>

GetHit(k) ==
    /\ Has(cache, k)
    /\ ~IsExpired(Lookup(cache, k), now, ttl)
    /\ accessPatterns' = updateAccessPattern(accessPatterns, k, now)
    /\ cache' = MapSet(cache, Touch(Lookup(cache, k), now))
    /\ hitCount' = hitCount + 1
    /\ last' = Call("get", k, GetValue(cache, k, now, ttl), "hit", 0)
    /\ UNCHANGED <<beyondCache, maxSize, ttl, missCount, now>>

Get(k) == GetAbsent(k) \/ GetExpired(k) \/ GetHit(k)

InvalidateByTag(tag) ==
    /\ cache' = MapDeleteAll(cache, Tagged(cache, tag))
    /\ last' = Call("invalidateByTag", tag, Undefined,
                    IF InvalidateThrows(cache) THEN "TypeError" ELSE "returned",
                    Cardinality(Tagged(cache, tag)))
    /\ UNCHANGED <<beyondCache, maxSize, ttl, accessPatterns, hitCount, missCount, now>>

\* The setInterval callback.
Cleanup ==
    LET dead == ExpiredKeys(cache, now, ttl)
    IN  /\ cache' = MapDeleteAll(cache, dead)
        /\ accessPatterns' = [k \in AllKeys |-> IF k \in dead THEN <<>> ELSE accessPatterns[k]]
        /\ last' = Call("cleanup", "", Undefined, "returned", Cardinality(dead))
        /\ UNCHANGED <<beyondCache, maxSize, ttl, hitCount, missCount, now>>

Clear ==
    /\ cache' = <<>>
    /\ accessPatterns' = [k \in AllKeys |-> <<>>]
    /\ hitCount' = 0
    /\ missCount' = 0
    /\ last' = Call("clear", "", Undefined, "returned", Len(cache))
    /\ UNCHANGED <<beyondCache, maxSize, ttl, now>>

\* A variant that sorts the entries of the Map itself.
GetStatsSorting ==
    /\ cache' = SortedByAccess(cache)
    /\ last' = Call("getStats", "",
                    Some(Stats(cache, accessPatterns, hitCount, missCount, maxSize)),
                    "returned", 0)
    /\ UNCHANGED <<beyondCache, maxSize, ttl, accessPatterns, hitCount, missCount, now>>

GetStats ==
    /\ last' = Call("getStats", "",
                    Some(Stats(cache, accessPatterns, hitCount, missCount, maxSize)),
                    "returned", 0)
    /\ UNCHANGED <<beyondCache, maxSize, ttl, cache, accessPatterns, hitCount, missCount, now>>

\* SmartCache has no delete member: cache.delete(key) throws
\* "TypeError: cache.delete is not a function" and changes nothing.
Delete(k) ==
    /\ last' = Call("delete", k, Undefined, "TypeError", 0)
    /\ UNCHANGED <<beyondCache, maxSize, ttl, cache, accessPatterns, hitCount, missCount, now>>

Tick(limit) ==
    /\ now < limit
    /\ now' = now + 1
    /\ last' = Call("tick", "", Undefined, "", 0)
    /\ UNCHANGED <<beyondCache, maxSize, ttl, cache, accessPatterns, hitCount, missCount>>

\* The entries mset is given: one or two distinct keys.
Batches(K, V) ==
    {<<[key |-> k, value |-> v]>> : k \in K, v \in V}
    \cup {<<[key |-> p[1], value |-> v], [key |-> p[2], value |-> v]>> :
            p \in {q \in K \X K : q[1] # q[2]}, v \in V}

\* The bounds of the model, on the state a step leaves: the counters and the
\* length of every access history.
Within ==
    /\ hitCount' <= MaxCount
    /\ missCount' <= MaxCount
    /\ \A k \in AllKeys : Len(accessPatterns'[k]) <= MaxPattern

----------------------------------------------------------------------------
(* AsyncQueue *)

TaskIds == 1..MaxTasks

\* The options of new AsyncQueue(options): concurrency, retries and delay
\* (0: not given).
QueueOptions == [concurrency : {0, 2}, retries : {0, 1}, delay : {0}]

DrainOptions == [concurrency : {0, 2}, retries : {0, 1}, delay : {0, 1}]

\* The progress of the task function passed to one add():
\*   phase   "new"       add() not called yet
\*           "queued"    its wrappedTask is in this.queue
\*           "attempt"   executeWithTimeout has invoked the task function and
\*                       neither its promise nor the timeout has settled it
\*           "backoff"   the sleep between two attempts
\*           "resolved", "rejected"   the promise of add() has settled
\*           "cleared"   clear() dropped its wrappedTask from this.queue
\*   attempt the loop variable of wrappedTask
\*   stale   invocations whose attempt timed out and whose promise is pending
NewTask == [phase |-> "new", attempt |-> 0, stale |-> 0]

\* constructor(options)
AsyncQueue(options) ==
    [maxConcurrency |-> IF options.concurrency = 0 THEN DefaultConcurrency
                        ELSE options.concurrency,
     retries |-> options.retries,
     delay |-> options.delay,
     paused |-> FALSE,
     queue |-> <<>>,
     running |-> 0,
     processed |-> 0,
     failed |-> 0,
     task |-> [i \in TaskIds |-> NewTask],
     sleeping |-> 0,      \* calls of process() in their sleep(this.delay)
     drain |-> "idle",    \* drain(): "idle" not called, "polling", "resolved"
     slept |-> FALSE]     \* drain() has awaited its sleep(10)

\* The queue of the cache models: one that no task is added to.
NoQueue == AsyncQueue([concurrency |-> 0, retries |-> 0, delay |-> 0])

\* executeWithTimeout(task): task() is invoked at once.
StartAttempt(q, i) == [q EXCEPT !.task[i].phase = "attempt"]

\* process(), up to its await: the head of the queue is started unless the
\* queue is paused, empty, or maxConcurrency tasks are running.
process(q) ==
    IF q.paused \/ q.running >= q.maxConcurrency \/ q.queue = <<>>
    THEN q
    ELSE StartAttempt([q EXCEPT !.queue = Tail(@), !.running = @ + 1], Head(q.queue))

\* process(), after `await task()`: running--, then sleep(this.delay) when
\* the delay is positive, process() at once when it is not.
AfterTask(q) ==
    IF q.delay > 0
    THEN [q EXCEPT !.running = @ - 1, !.sleeping = @ + 1]
    ELSE process([q EXCEPT !.running = @ - 1])

\* wrappedTask, the catch block and the end of the loop: sleep before the next
\* attempt, or count the failure and reject.
AttemptFailed(q, i) ==
    IF q.task[i].attempt < q.retries
    THEN [q EXCEPT !.task[i].phase = "backoff"]
    ELSE AfterTask([q EXCEPT !.task[i].phase = "rejected", !.failed = @ + 1])

RECURSIVE StaleUpTo(_, _)
StaleUpTo(q, n) == IF n = 0 THEN 0 ELSE q.task[n].stale + StaleUpTo(q, n - 1)

\* The invocations of task functions whose promise has not settled: those of
\* the attempts in flight and those of the attempts that timed out.
Unsettled(q) ==
    Cardinality({i \in TaskIds : q.task[i].phase = "attempt"}) + StaleUpTo(q, MaxTasks)

\* add(task): push the wrappedTask, call process().
Add(i) ==
    /\ aq.task[i].phase = "new"
    /\ aq' = process([aq EXCEPT !.queue = Append(@, i), !.task[i].phase = "queued"])
    /\ UNCHANGED beyondQueue

\* The promise of the task function resolves before the timeout.
TaskResolves(i) ==
    /\ aq.task[i].phase = "attempt"
    /\ aq' = AfterTask([aq EXCEPT !.task[i].phase = "resolved", !.processed = @ + 1])
    /\ UNCHANGED beyondQueue

\* The promise of the task function rejects before the timeout.
TaskRejects(i) ==
    /\ aq.task[i].phase = "attempt"
    /\ aq' = AttemptFailed(aq, i)
    /\ UNCHANGED beyondQueue

\* The setTimeout callback of executeWithTimeout: the attempt is rejected with
\* 'Task timeout'; the promise of the task function stays pending.
TimeoutFires(i) ==
    /\ aq.task[i].phase = "attempt"
    /\ aq' = AttemptFailed([aq EXCEPT !.task[i].stale = @ + 1], i)
    /\ UNCHANGED beyondQueue

\* The promise of an attempt that timed out settles: its then/catch callbacks
\* call clearTimeout and resolve or reject a promise already rejected.
StaleSettles(i) ==
    /\ aq.task[i].stale > 0
    /\ aq' = [aq EXCEPT !.task[i].stale = @ - 1]
    /\ UNCHANGED beyondQueue

\* The sleep of the exponential backoff ends: the next attempt starts.
BackoffEnds(i) ==
    /\ aq.task[i].phase = "backoff"
    /\ aq' = StartAttempt([aq EXCEPT !.task[i].attempt = @ + 1], i)
    /\ UNCHANGED beyondQueue

\* The sleep(this.delay) of one call of process() ends: it calls process().
DelayEnds ==
    /\ aq.sleeping > 0
    /\ aq' = process([aq EXCEPT !.sleeping = @ - 1])
    /\ UNCHANGED beyondQueue

\* pause()
Pause ==
    /\ aq' = [aq EXCEPT !.paused = TRUE]
    /\ UNCHANGED beyondQueue

\* A variant of resume() that does not call process().
ResumeOnly ==
    /\ aq' = [aq EXCEPT !.paused = FALSE]
    /\ UNCHANGED beyondQueue

\* resume()
Resume ==
    /\ aq' = process([aq EXCEPT !.paused = FALSE])
    /\ UNCHANGED beyondQueue

\* clear(): this.queue = []; the promises of the dropped tasks stay pending.
ClearQueue ==
    /\ aq' = [aq EXCEPT !.queue = <<>>,
                        !.task = [i \in TaskIds |->
                                    IF aq.task[i].phase = "queued"
                                    THEN [aq.task[i] EXCEPT !.phase = "cleared"]
                                    ELSE aq.task[i]]]
    /\ UNCHANGED beyondQueue

\* setConcurrency(concurrency)
SetConcurrency(concurrency) ==
    /\ aq' = process([aq EXCEPT !.maxConcurrency = concurrency])
    /\ UNCHANGED beyondQueue

\* drain(), the test of its loop: false when nothing is queued or running.
Draining(q) == Len(q.queue) > 0 \/ q.running > 0

\* drain() is called: it returns at once or starts to poll.
Drain ==
    /\ aq.drain = "idle"
    /\ aq' = [aq EXCEPT !.drain = IF Draining(aq) THEN "polling" ELSE "resolved",
                        !.slept = Draining(aq)]
    /\ UNCHANGED beyondQueue

\* The sleep(10) of drain() ends: the loop tests again.
DrainPolls ==
    /\ aq.drain = "polling"
    /\ aq' = [aq EXCEPT !.drain = IF Draining(aq) THEN "polling" ELSE "resolved"]
    /\ UNCHANGED beyondQueue

----------------------------------------------------------------------------
(* ArrayUtils *)

Elements == {1, 2}

\* The arrays of at most n elements.
Arrays(n) == UNION {[1..len -> Elements] : len \in 0..n}

Min(x, y) == IF x < y THEN x ELSE y

\* A variant of slice whose end index is included.
sliceInclusive(arr, start, end) == SubSeq(arr, start + 1, Min(end + 1, Len(arr)))

\* arr.slice(start, end) for 0 <= start <= end: the elements at the 0-based
\* indices start .. end - 1 that the array has.
slice(arr, start, end) == SubSeq(arr, start + 1, Min(end, Len(arr)))

\* The loop of chunk: for (let i = 0; i < arr.length; i += size)
RECURSIVE chunkFrom(_, _, _, _)
chunkFrom(arr, size, i, chunks) ==
    IF i < Len(arr)
    THEN chunkFrom(arr, size, i + size, Append(chunks, slice(arr, i, i + size)))
    ELSE chunks

chunk(arr, size) == chunkFrom(arr, size, 0, <<>>)

\* No call of ArrayUtils was made.
NoArray == [arr |-> <<>>, size |-> 1, called |-> FALSE, chunks |-> <<>>]

\* ArrayUtils.chunk(au.arr, au.size) returns.
Chunk ==
    /\ ~au.called
    /\ au' = [au EXCEPT !.called = TRUE, !.chunks = chunk(au.arr, au.size)]
    /\ UNCHANGED beyondArray

----------------------------------------------------------------------------
(* RetryHandler *)

CallIds == 1..MaxCalls

\* The options of new RetryHandler(options): maxRetries (0: not given).
RetryOptions == [maxRetries : {0, 1}]

\* The errors a function fails with, by name.
Errors == {"NetworkError", "ValidationError"}

\* defaultRetryCondition: the name or the message includes one of these.
defaultRetryCondition(error) ==
    error \in {"NetworkError", "TimeoutError", "ECONNRESET", "ECONNREFUSED", "ETIMEDOUT"}

\* A call of execute(fn):
\*   phase     "new"       not called
\*             "running"   fn was invoked, its promise is pending
\*             "sleeping"  in sleep(delay) before the next attempt
\*             "resolved", "rejected"   the promise of execute has settled
\*   attempt   the loop variable
\*   invoked   the number of invocations of fn
\*   failures  the number of times the catch block ran
\*   lastError the error of the last failure ("null": none)
\*   saved     originalMaxRetries, originalBaseDelay, originalRetryCondition of
\*             the executeWithOptions that made the call (Undefined: execute
\*             was called directly)
NewCall == [phase |-> "new", attempt |-> 0, invoked |-> 0, failures |-> 0,
            lastError |-> "null", saved |-> Undefined]

\* this.retryCondition, by name: defaultRetryCondition or a function given in
\* the options of executeWithOptions.
RetryCondition(name, error) ==
    CASE name = "default" -> defaultRetryCondition(error)
      [] name = "always"  -> TRUE
      [] name = "never"   -> FALSE

\* The three fields that executeWithOptions replaces.
Fields(h) ==
    [maxRetries |-> h.maxRetries, baseDelay |-> h.baseDelay,
     retryCondition |-> h.retryCondition]

\* `constructed` keeps the three fields as the constructor set them.
RetryHandler(options) ==
    [maxRetries |-> IF options.maxRetries = 0 THEN DefaultMaxRetries
                    ELSE options.maxRetries,
     baseDelay |-> DefaultBaseDelay,
     retryCondition |-> "default",
     constructed |-> [maxRetries |-> IF options.maxRetries = 0 THEN DefaultMaxRetries
                                     ELSE options.maxRetries,
                      baseDelay |-> DefaultBaseDelay,
                      retryCondition |-> "default"],
     statistics |-> [totalAttempts |-> 0, totalRetries |-> 0,
                     successfulRetries |-> 0, failedRetries |-> 0],
     call |-> [c \in CallIds |-> NewCall]]

NoRetry == RetryHandler([maxRetries |-> 0])

\* The body of the loop up to `await fn()`: totalAttempts++, fn is invoked.
Invoke(h, c) ==
    [h EXCEPT !.statistics.totalAttempts = @ + 1,
              !.call[c].phase = "running",
              !.call[c].invoked = @ + 1]

\* The promise of execute has settled: under executeWithOptions the finally
\* block puts the three saved fields back.
Restore(h, c) ==
    IF h.call[c].saved = Undefined THEN h
    ELSE [h EXCEPT !.maxRetries = h.call[c].saved[1].maxRetries,
                   !.baseDelay = h.call[c].saved[1].baseDelay,
                   !.retryCondition = h.call[c].saved[1].retryCondition]

\* attempt++ and the test of the loop: the next attempt, or throw lastError.
NextAttempt(h, c) ==
    IF h.call[c].attempt + 1 <= h.maxRetries
    THEN Invoke([h EXCEPT !.call[c].attempt = @ + 1], c)
    ELSE Restore([h EXCEPT !.call[c].attempt = @ + 1, !.call[c].phase = "rejected"], c)

\* execute(fn) is called.
RetryExecute(c) ==
    /\ rh.call[c].phase = "new"
    /\ rh' = Invoke(rh, c)
    /\ UNCHANGED beyondRetry

\* The options of executeWithOptions(fn, options); Undefined: not given.
WithOptions ==
    [maxRetries : {Undefined, Some(0), Some(2)},
     baseDelay : {Undefined, Some(5)},
     retryCondition : {Undefined, Some("always")}]

Given(option, field) == IF option = Undefined THEN field ELSE option[1]

\* executeWithOptions(fn, options) is called: the fields are saved, the given
\* options replace them, and execute runs up to its first `await fn()`.
ExecuteWithOptions(c, options) ==
    /\ rh.call[c].phase = "new"
    /\ rh' = Invoke([rh EXCEPT !.call[c].saved = Some(Fields(rh)),
                               !.maxRetries = Given(options.maxRetries, @),
                               !.baseDelay = Given(options.baseDelay, @),
                               !.retryCondition = Given(options.retryCondition, @)], c)
    /\ UNCHANGED beyondRetry

\* The promise of fn resolves: execute returns the result.
RetryFnResolves(c) ==
    /\ rh.call[c].phase = "running"
    /\ rh' = Restore([rh EXCEPT !.call[c].phase = "resolved",
                                !.statistics.successfulRetries =
                                    IF rh.call[c].attempt > 0 THEN @ + 1 ELSE @], c)
    /\ UNCHANGED beyondRetry

\* The promise of fn rejects: the catch block, then the loop goes on.
RetryFnRejects(c, error) ==
    /\ rh.call[c].phase = "running"
    /\ LET h == [rh EXCEPT !.call[c].lastError = error,
                           !.call[c].failures = @ + 1]
       IN  rh' = IF h.call[c].attempt < h.maxRetries
                    /\ RetryCondition(h.retryCondition, error)
                 THEN [h EXCEPT !.statistics.totalRetries = @ + 1,
                                !.call[c].phase = "sleeping"]
                 ELSE NextAttempt([h EXCEPT !.statistics.failedRetries = @ + 1], c)
    /\ UNCHANGED beyondRetry

\* The sleep before a retry ends.
RetrySleepEnds(c) ==
    /\ rh.call[c].phase = "sleeping"
    /\ rh' = NextAttempt(rh, c)
    /\ UNCHANGED beyondRetry

----------------------------------------------------------------------------
(* The circuit breaker of RetryHandler.createCircuitBreaker *)

BreakerOptions ==
    [failureThreshold : {1, 2}, resetTimeout : {1, 2}, monitoringPeriod : {1, 3}]

\* The closure after createCircuitBreaker(options).  Date.now() is far from
\* 0, the first value of lastFailureTime: the clock starts beyond both periods.
\* A call in flight keeps the `now` it read when it was made.
createCircuitBreaker(options) ==
    [failureThreshold |-> options.failureThreshold,
     resetTimeout |-> options.resetTimeout,
     monitoringPeriod |-> options.monitoringPeriod,
     failures |-> 0,
     lastFailureTime |-> 0,
     state |-> "CLOSED",
     now |-> options.resetTimeout + options.monitoringPeriod + 1,
     elapsed |-> 0,
     call |-> [c \in CallIds |-> [phase |-> "idle", now |-> 0]],
     last |-> [op |-> "create", outcome |-> ""]]

NoBreaker ==
    createCircuitBreaker([failureThreshold |-> 1, resetTimeout |-> 1, monitoringPeriod |-> 1])

\* A variant of the test for HALF_OPEN that passes at exactly resetTimeout.
ResetElapsedEarly(b) == b.now - b.lastFailureTime >= b.resetTimeout

\* now - lastFailureTime > options.resetTimeout
ResetElapsed(b) == b.now - b.lastFailureTime > b.resetTimeout

\* execute(), lines 213-216: the failures are forgotten after monitoringPeriod.
Monitored(b) ==
    IF b.now - b.lastFailureTime > b.monitoringPeriod THEN [b EXCEPT !.failures = 0] ELSE b

\* execute(fn) is called: it throws while OPEN, or invokes fn.
BreakerExecute(c) ==
    /\ cb.call[c].phase = "idle"
    /\ LET b == Monitored(cb)
       IN  cb' = IF b.state = "OPEN" /\ ~ResetElapsed(b)
                 THEN [b EXCEPT !.last = [op |-> "execute",
                                          outcome |-> "Circuit breaker is OPEN"]]
                 ELSE [b EXCEPT !.state = IF @ = "OPEN" THEN "HALF_OPEN" ELSE @,
                                !.call[c] = [phase |-> "running", now |-> cb.now],
                                !.last = [op |-> "execute", outcome |-> "invoked"]]
    /\ UNCHANGED beyondBreaker

\* The promise of fn resolves.
BreakerFnResolves(c) ==
    /\ cb.call[c].phase = "running"
    /\ cb' = [cb EXCEPT !.state = IF @ = "HALF_OPEN" THEN "CLOSED" ELSE @,
                        !.failures = IF cb.state = "HALF_OPEN" THEN 0 ELSE @,
                        !.call[c] = [phase |-> "idle", now |-> 0],
                        !.last = [op |-> "settle", outcome |-> "resolved"]]
    /\ UNCHANGED beyondBreaker

\* The promise of fn rejects.
BreakerFnRejects(c) ==
    /\ cb.call[c].phase = "running"
    /\ cb' = [cb EXCEPT !.failures = @ + 1,
                        !.lastFailureTime = cb.call[c].now,
                        !.state = IF cb.failures + 1 >= cb.failureThreshold
                                  THEN "OPEN" ELSE @,
                        !.call[c] = [phase |-> "idle", now |-> 0],
                        !.last = [op |-> "settle", outcome |-> "rejected"]]
    /\ UNCHANGED beyondBreaker

\* reset()
BreakerReset ==
    /\ cb' = [cb EXCEPT !.failures = 0, !.state = "CLOSED",
                        !.last = [op |-> "reset", outcome |-> ""]]
    /\ UNCHANGED beyondBreaker

\* A millisecond passes.
BreakerTick ==
    /\ cb.elapsed < MaxElapsed
    /\ cb' = [cb EXCEPT !.now = @ + 1, !.elapsed = @ + 1,
                        !.last = [op |-> "tick", outcome |-> ""]]
    /\ UNCHANGED beyondBreaker

----------------------------------------------------------------------------
(* RateLimiter, algorithm 'sliding-window' *)

\* The options of new RateLimiter(options): requests and windowMs (0: not given).
LimiterOptions == [requests : {1, 2}, windowMs : {1, 2}]

\* `granted` lists the times at which consume() returned allowed = true.
RateLimiter(options) ==
    [maxRequests |-> IF options.requests = 0 THEN DefaultRequests ELSE options.requests,
     windowMs |-> IF options.windowMs = 0 THEN DefaultWindowMs ELSE options.windowMs,
     requests |-> <<>>,
     now |-> 0,
     granted |-> <<>>,
     last |-> [op |-> "constructor", allowed |-> FALSE]]

NoLimiter == RateLimiter([requests |-> 0, windowMs |-> 0])

\* A variant of the filter that also drops the requests of windowStart + 1.
RecentNarrow(requests, t, windowMs) ==
    SelectSeq(requests, LAMBDA time : time > t - windowMs + 1)

\* this.requests.filter(time => time > windowStart)
Recent(requests, t, windowMs) ==
    SelectSeq(requests, LAMBDA time : time > t - windowMs)

\* slidingWindowCheck(): the requests it keeps and what it returns.
slidingWindowCheck(l) ==
    [requests |-> Recent(l.requests, l.now, l.windowMs),
     allowed |-> Len(Recent(l.requests, l.now, l.windowMs)) < l.maxRequests]

\* isAllowed()
IsAllowed ==
    /\ \E check \in {slidingWindowCheck(rl)} :
          rl' = [rl EXCEPT !.requests = check.requests,
                           !.last = [op |-> "isAllowed", allowed |-> check.allowed]]
    /\ UNCHANGED beyondLimiter

\* consume(): isAllowed(), then recordRequest() when it allowed.
Consume ==
    /\ \E check \in {slidingWindowCheck(rl)} :
          rl' = [rl EXCEPT !.requests = IF check.allowed
                                        THEN Append(check.requests, rl.now)
                                        ELSE check.requests,
                           !.granted = IF check.allowed THEN Append(@, rl.now) ELSE @,
                           !.last = [op |-> "consume", allowed |-> check.allowed]]
    /\ UNCHANGED beyondLimiter

\* A millisecond passes.
LimiterTick ==
    /\ rl.now < MaxLimiterTime
    /\ rl' = [rl EXCEPT !.now = @ + 1, !.last = [op |-> "tick", allowed |-> FALSE]]
    /\ UNCHANGED beyondLimiter

----------------------------------------------------------------------------
(* EventEmitter, the listeners of one event *)

ListenerIds == 1..MaxListeners

\* What a callback does when it is invoked: nothing to the emitter
\* (off = 0), or this.off(event, the callback off); a callback that emits
\* calls this.emit(event) the first time it is invoked within an emit.
\* A listener is [id, once, off, emits]: the callback id, registered by
\* once() (the array holds its onceWrapper) or by on().
Listener(id, once, off) == [id |-> id, once |-> once, off |-> off, emits |-> FALSE]

Emitting(l) == [l EXCEPT !.emits = TRUE]

Count(list, x) == Cardinality({i \in 1..Len(list) : list[i] = x})

Registered(events, id) == \E i \in 1..Len(events) : events[i].id = id

\* off(event, callback): indexOf finds a callback registered by on(); of a
\* callback registered by once() the array holds the wrapper, not found.
off(events, id) ==
    SelectSeq(events, LAMBDA l : ~(l.id = id /\ ~l.once))

\* this.off(event, onceWrapper), called by the wrapper itself.
offWrapper(events, id) ==
    SelectSeq(events, LAMBDA l : ~(l.id = id /\ l.once))

RECURSIVE forEach(_, _, _, _)

\* What the callback of l leaves: the array after its emit (a forEach of its
\* own, nested in the one that invoked it) and its off, with the invocations.
Called(events, l, invoked) ==
    \* h is the array and the invocations after the nested emit, if any
    LET h == IF l.emits /\ Count(invoked, l.id) = 0
             THEN forEach(events, 0, Len(events), Append(invoked, l.id))
             ELSE [events |-> events, invoked |-> Append(invoked, l.id)]
    IN  [events |-> IF l.off = 0 THEN h.events ELSE off(h.events, l.off),
         invoked |-> h.invoked]

\* The invocation of one element of the array: the callback runs, then a
\* onceWrapper removes itself.
Invoked(events, l, invoked) ==
    LET h == Called(events, l, invoked)
    IN  [events |-> IF l.once THEN offWrapper(h.events, l.id) ELSE h.events,
         invoked |-> h.invoked]

\* this.events[event].forEach(...): the indices 0 .. length - 1 of the array
\* as it was when forEach began, each read from the array as it is then; an
\* index the array no longer has is skipped.  k counts the indices visited.
forEach(events, k, length, invoked) ==
    IF k >= length THEN [events |-> events, invoked |-> invoked]
    ELSE IF k >= Len(events) THEN forEach(events, k + 1, length, invoked)
    ELSE LET h == Invoked(events, events[k + 1], invoked)
         IN  forEach(h.events, k + 1, length, h.invoked)

EventEmitter ==
    [events |-> <<>>,
     last |-> [op |-> "constructor", registered |-> <<>>, invoked |-> <<>>]]

Ids(events) == [i \in 1..Len(events) |-> events[i].id]

NoCall(op) == [op |-> op, registered |-> <<>>, invoked |-> <<>>]

\* on(event, callback)
On(id, target) ==
    /\ ~Registered(ee.events, id)
    /\ ee' = [ee EXCEPT !.events = Append(@, Listener(id, FALSE, target)),
                        !.last = NoCall("on")]
    /\ UNCHANGED beyondEmitter

\* once(event, callback)
Once(id, target) ==
    /\ ~Registered(ee.events, id)
    /\ ee' = [ee EXCEPT !.events = Append(@, Listener(id, TRUE, target)),
                        !.last = NoCall("once")]
    /\ UNCHANGED beyondEmitter

\* once(event, callback) with a callback that emits the event.
OnceEmitting(id) ==
    /\ ~Registered(ee.events, id)
    /\ ee' = [ee EXCEPT !.events = Append(@, Emitting(Listener(id, TRUE, 0))),
                        !.last = NoCall("once")]
    /\ UNCHANGED beyondEmitter

\* off(event, callback), called between emits.
Off(id) ==
    /\ ee' = [ee EXCEPT !.events = off(@, id), !.last = NoCall("off")]
    /\ UNCHANGED beyondEmitter

\* emit(event)
Emit ==
    /\ \E res \in {forEach(ee.events, 0, Len(ee.events), <<>>)} :
          ee' = [ee EXCEPT !.events = res.events,
                           !.last = [op |-> "emit", registered |-> Ids(ee.events),
                                     invoked |-> res.invoked]]
    /\ UNCHANGED beyondEmitter

\* removeAllListeners(event)
RemoveAllListeners ==
    /\ ee' = [ee EXCEPT !.events = <<>>, !.last = NoCall("removeAllListeners")]
    /\ UNCHANGED beyondEmitter

----------------------------------------------------------------------------
(* RealtimeStream *)

SocketIds == 1..MaxSockets

\* The options of new RealtimeStream(config, dataOptions) (0: not given).
StreamOptions == [maxReconnectAttempts : {0, 1}, batchSize : {1, 2}]

\* socket[s]      the WebSocket s: "none" (not created), "connecting", "open",
\*                "closing" (close() was called), "closed"
\* created        the number of WebSockets created: the connection attempts
\* ws             this.ws (0: null)
\* flushTimer     this.flushTimer holds an interval
\* intervals      the intervals of startFlushTimer that were not cleared
\* reconnects     the timeouts of attemptReconnect that have not fired
\* wire           the messages handed to a socket's send, in order; the
\*                message of the n-th call of send() is n
\* disconnected   disconnect() was called and connect() not since
RealtimeStream(options) ==
    [maxReconnectAttempts |-> IF options.maxReconnectAttempts = 0
                              THEN DefaultMaxReconnectAttempts
                              ELSE options.maxReconnectAttempts,
     batchSize |-> IF options.batchSize = 0 THEN DefaultBatchSize ELSE options.batchSize,
     socket |-> [s \in SocketIds |-> "none"],
     created |-> 0,
     ws |-> 0,
     isConnected |-> FALSE,
     reconnectAttempts |-> 0,
     buffer |-> <<>>,
     flushTimer |-> FALSE,
     intervals |-> 0,
     reconnects |-> 0,
     wire |-> <<>>,
     sends |-> 0,
     disconnected |-> FALSE,
     last |-> [op |-> "constructor", by |-> ""]]

NoStream == RealtimeStream([maxReconnectAttempts |-> 0, batchSize |-> 0])

\* connect(): this.ws = new WebSocket(...), with its handlers.
connect(r) ==
    [r EXCEPT !.created = @ + 1,
              !.socket[r.created + 1] = "connecting",
              !.ws = r.created + 1]

\* stopFlushTimer()
stopFlushTimer(r) ==
    IF r.flushTimer
    THEN [r EXCEPT !.flushTimer = FALSE, !.intervals = @ - 1]
    ELSE r

\* startFlushTimer(): the handle of an interval already running is lost.
startFlushTimer(r) == [r EXCEPT !.flushTimer = TRUE, !.intervals = @ + 1]

\* attemptReconnect()
attemptReconnect(r) ==
    IF r.reconnectAttempts >= r.maxReconnectAttempts THEN r
    ELSE [r EXCEPT !.reconnectAttempts = @ + 1, !.reconnects = @ + 1]

\* ws.send(...) with the socket this.ws: an open socket takes the messages,
\* another one throws.
Transmit(r, messages) ==
    IF r.socket[r.ws] = "open" THEN [r EXCEPT !.wire = @ \o messages] ELSE r

\* sendBatch(data); send(data) does the same with the one message.
sendBatch(r, data) ==
    IF ~r.isConnected \/ r.ws = 0
    THEN [r EXCEPT !.buffer = @ \o data]
    ELSE Transmit(r, data)

\* flushBuffer()
flushBuffer(r) ==
    IF r.buffer = <<>> THEN r
    ELSE sendBatch([r EXCEPT !.buffer = SubSeq(@, Min(Len(@), r.batchSize) + 1, Len(@))],
                   SubSeq(r.buffer, 1, Min(Len(r.buffer), r.batchSize)))

By(r, op, by) == [r EXCEPT !.last = [op |-> op, by |-> by]]

\* The caller calls connect().
StreamConnect ==
    /\ rs.created < MaxSockets
    /\ rs' = By([connect(rs) EXCEPT !.disconnected = FALSE], "connect", "caller")
    /\ UNCHANGED beyondStream

\* ws.onopen
SocketOpens(s) ==
    /\ rs.socket[s] = "connecting"
    /\ rs' = By(startFlushTimer([rs EXCEPT !.socket[s] = "open",
                                           !.isConnected = TRUE,
                                           !.reconnectAttempts = 0]),
                "onopen", "socket")
    /\ UNCHANGED beyondStream

\* ws.onclose: the server or the network closed the socket, the connection
\* failed, or the close() of disconnect() is done.
SocketCloses(s) ==
    /\ rs.socket[s] \in {"connecting", "open", "closing"}
    /\ rs' = By(attemptReconnect(stopFlushTimer([rs EXCEPT !.socket[s] = "closed",
                                                           !.isConnected = FALSE])),
                "onclose", "socket")
    /\ UNCHANGED beyondStream

\* The timeout of attemptReconnect fires: this.connect().
ReconnectFires ==
    /\ rs.reconnects > 0
    /\ rs.created < MaxSockets
    /\ rs' = By(connect([rs EXCEPT !.reconnects = @ - 1]), "connect", "timer")
    /\ UNCHANGED beyondStream

\* disconnect()
StreamDisconnect ==
    /\ rs' = By(stopFlushTimer(
                  [rs EXCEPT !.socket = IF rs.ws # 0 /\ rs.socket[rs.ws] \in {"connecting", "open"}
                                        THEN [@ EXCEPT ![rs.ws] = "closing"]
                                        ELSE @,
                             !.ws = 0,
                             !.isConnected = FALSE,
                             !.disconnected = TRUE]),
                "disconnect", "caller")
    /\ UNCHANGED beyondStream

\* send(data), the next message of the caller.
StreamSend ==
    /\ rs.sends < MaxMessages
    /\ rs' = By(sendBatch([rs EXCEPT !.sends = @ + 1], <<rs.sends + 1>>), "send", "caller")
    /\ UNCHANGED beyondStream

\* An interval of startFlushTimer fires: flushBuffer().
FlushFires ==
    /\ rs.intervals > 0
    /\ rs' = By(flushBuffer(rs), "flushBuffer", "timer")
    /\ UNCHANGED beyondStream

----------------------------------------------------------------------------
(* APIHelper *)

GetIds == 1..MaxGets

\* The arguments of get(url, options): one URL, with or without a headers
\* object; cache (undefined counts as true) and cacheTTL (0: not given).
ApiUrls == {"/a"}
ApiHeaders == {Undefined, Some("{h}")}
GetOptions == [cache : BOOLEAN, cacheTTL : {0, 1}, headers : ApiHeaders]

\* What a request answers: 0 stands for a body that is falsy in JavaScript
\* (0, "", null), 1 for a truthy body.
ApiData == {0, 1}

\* getCacheKey: `${method}:${url}:${headersStr}`.
getCacheKey(method, url, headers) ==
    <<method, url, IF headers = Undefined THEN "" ELSE headers[1]>>

ApiKeys == {getCacheKey("GET", url, headers) : url \in ApiUrls, headers \in ApiHeaders}

\* cache         this.cache: key -> Undefined or Some([data, timestamp, ttl])
\* requestQueue  this.requestQueue: key -> the request whose promise it holds
\*               (0: no entry)
\* request[r]    the promise of the r-th makeRequest: its key, "pending",
\*               "resolved" or "rejected" ("none": not made), its value
\* issued        the number of makeRequest calls
\* call[c]       a call of get: "new", "awaiting" (its promise is pending),
\*               "resolved" or "rejected"; its key and options; the request
\*               whose promise it awaits or returns (0: none); whether it made
\*               that request; the request in flight for its key when it was
\*               called (0: none); the value it resolved with.  The options
\*               are locals of the call: a settled call no longer has them
\* now           Date.now()
NewGet == [phase |-> "new", key |-> <<>>, cache |-> TRUE, cacheTTL |-> 0,
           request |-> 0, owner |-> FALSE, inflight |-> 0, data |-> 0]

APIHelper ==
    [cache |-> [k \in ApiKeys |-> Undefined],
     requestQueue |-> [k \in ApiKeys |-> 0],
     request |-> [r \in GetIds |-> [key |-> <<>>, phase |-> "none", data |-> 0]],
     issued |-> 0,
     call |-> [c \in GetIds |-> NewGet],
     now |-> 0]

NoApi == APIHelper

\* getFromCache(key): the data of a fresh entry; an entry that is not fresh
\* is deleted and the result is null.
getFromCache(a, key) ==
    LET cached == a.cache[key]
    IN  IF cached # Undefined /\ a.now - cached[1].timestamp < cached[1].ttl
        THEN [api |-> a, data |-> Some(cached[1].data)]
        ELSE [api |-> [a EXCEPT !.cache[key] = Undefined], data |-> Undefined]

\* setCache(key, data, ttl)
setCache(a, key, data, t) ==
    [a EXCEPT !.cache[key] = Some([data |-> data, timestamp |-> a.now, ttl |-> t])]

\* `if (cached)`: null and falsy data do not count.
Truthy(data) == data # Undefined /\ data[1] # 0

\* get(url, options) from its first line to its first await or return; the
\* calls are numbered in the order in which they are made.
ApiGet(c, url, options) ==
    /\ ah.call[c].phase = "new"
    /\ \A d \in 1..(c - 1) : ah.call[d].phase # "new"
    /\ LET cacheKey == getCacheKey("GET", url, options.headers)
           looked == IF options.cache THEN getFromCache(ah, cacheKey)
                     ELSE [api |-> ah, data |-> Undefined]
           a == [looked.api EXCEPT !.call[c].key = cacheKey,
                                   !.call[c].cache = options.cache,
                                   !.call[c].cacheTTL = options.cacheTTL,
                                   !.call[c].inflight = ah.requestQueue[cacheKey]]
       IN  ah' = IF Truthy(looked.data)
                 THEN [a EXCEPT !.call[c].phase = "resolved",
                                !.call[c].cache = TRUE,
                                !.call[c].cacheTTL = 0,
                                !.call[c].data = looked.data[1]]
                 ELSE IF a.requestQueue[cacheKey] # 0
                 THEN [a EXCEPT !.call[c].phase = "awaiting",
                                !.call[c].request = a.requestQueue[cacheKey]]
                 ELSE [a EXCEPT !.issued = @ + 1,
                                !.request[a.issued + 1] =
                                    [key |-> cacheKey, phase |-> "pending", data |-> 0],
                                !.requestQueue[cacheKey] = a.issued + 1,
                                !.call[c].phase = "awaiting",
                                !.call[c].request = a.issued + 1,
                                !.call[c].owner = TRUE]
    /\ UNCHANGED beyondApi

\* The calls whose promise follows request r.
Awaiting(a, r) == {c \in GetIds : a.call[c].phase = "awaiting" /\ a.call[c].request = r}

\* A variant of the finally block that leaves the key in requestQueue.
KeepQueued(a, r) == a

\* The finally block of the call that made request r.
Dequeue(a, r) == [a EXCEPT !.requestQueue[a.request[r].key] = 0]

\* The promise of makeRequest resolves: the call that made the request
\* caches the result unless cache is false, and removes the key from
\* requestQueue; every call that holds the promise resolves with the result.
RequestResolves(r, data) ==
    /\ ah.request[r].phase = "pending"
    /\ LET maker == CHOOSE c \in Awaiting(ah, r) : ah.call[c].owner
           cached == IF ah.call[maker].cache
                     THEN setCache(ah, ah.request[r].key, data,
                                   IF ah.call[maker].cacheTTL = 0 THEN DefaultCacheTTL
                                   ELSE ah.call[maker].cacheTTL)
                     ELSE ah
           a == Dequeue(cached, r)
       IN  ah' = [a EXCEPT !.request[r].phase = "resolved",
                           !.request[r].data = data,
                           !.call = [c \in GetIds |->
                                        IF c \in Awaiting(ah, r)
                                        THEN [a.call[c] EXCEPT !.phase = "resolved",
                                                               !.cache = TRUE,
                                                               !.cacheTTL = 0,
                                                               !.data = data]
                                        ELSE a.call[c]]]
    /\ UNCHANGED beyondApi

\* The promise of makeRequest rejects, its retries used up: every call that
\* holds it rejects, and the key leaves requestQueue.
RequestRejects(r) ==
    /\ ah.request[r].phase = "pending"
    /\ LET a == Dequeue(ah, r)
       IN  ah' = [a EXCEPT !.request[r].phase = "rejected",
                           !.call = [c \in GetIds |->
                                        IF c \in Awaiting(ah, r)
                                        THEN [a.call[c] EXCEPT !.phase = "rejected",
                                                               !.cache = TRUE,
                                                               !.cacheTTL = 0]
                                        ELSE a.call[c]]]
    /\ UNCHANGED beyondApi

\* Time passes.
ApiTick ==
    /\ ah.now < MaxApiTime
    /\ ah' = [ah EXCEPT !.now = @ + 1]
    /\ UNCHANGED beyondApi

----------------------------------------------------------------------------
(* PerformanceMonitor *)

OperationNames == {"load", "save"}

\* The executionTime of a metric, in ms, below and above the 500 ms of
\* generateRecommendations.
ExecutionTimes == {1, 600}

\* metrics            this.metrics, each metric by its executionTime
\* currentOperations  the keys of this.currentOperations
\* last               the most recent call and how it ended
PerformanceMonitor ==
    [metrics |-> <<>>, currentOperations |-> {}, last |-> [op |-> "none"]]

RECURSIVE SumOf(_)
SumOf(numbers) ==
    IF numbers = <<>> THEN 0 ELSE numbers[1] + SumOf(Tail(numbers))

RECURSIVE MaxOf(_)
MaxOf(numbers) ==
    IF Len(numbers) = 1 THEN numbers[1]
    ELSE LET m == MaxOf(Tail(numbers)) IN IF numbers[1] > m THEN numbers[1] ELSE m

\* The summary of getAnalytics; averageExecutionTime is
\* sumExecutionTime / totalOperations.
Summary(metrics) ==
    [totalOperations |-> Len(metrics),
     sumExecutionTime |-> SumOf(metrics),
     slowestOperation |-> IF metrics = <<>> THEN 0 ELSE MaxOf(metrics)]

\* A call that does not fit on the call stack throws RangeError, which
\* neither method catches.
RangeError == [threw |-> "RangeError"]

\* getAnalytics() and generateRecommendations(), which call each other;
\* depth is the number of frames of the two on the call stack.
RECURSIVE getAnalytics(_, _)
generateRecommendations(metrics, depth) ==
    IF depth > MaxStack THEN RangeError
    ELSE LET analytics == getAnalytics(metrics, depth + 1)
         IN  IF analytics = RangeError THEN RangeError
             ELSE [threw |-> "nothing",
                   recommendations |->
                       IF analytics.summary.sumExecutionTime
                              > SlowAverage * analytics.summary.totalOperations
                       THEN {"optimize slow operations"} ELSE {}]

getAnalytics(metrics, depth) ==
    IF depth > MaxStack THEN RangeError
    ELSE IF Len(metrics) = 0
    THEN [threw |-> "nothing", summary |-> Summary(<<>>), recommendations |-> {}]
    ELSE LET recommended == generateRecommendations(metrics, depth + 1)
         IN  IF recommended = RangeError THEN RangeError
             ELSE [threw |-> "nothing", summary |-> Summary(metrics),
                   recommendations |-> recommended.recommendations]

\* startOperation(operationName)
StartOperation(name) ==
    /\ pm' = [pm EXCEPT !.currentOperations = @ \cup {name},
                        !.last = [op |-> "startOperation"]]
    /\ UNCHANGED beyondMonitor

\* endOperation(operationName) of an operation that was started: the metric
\* is recorded.
EndOperation(name, executionTime) ==
    /\ name \in pm.currentOperations
    /\ Len(pm.metrics) < MaxMetrics
    /\ pm' = [pm EXCEPT !.metrics = Append(@, executionTime),
                        !.currentOperations = @ \ {name},
                        !.last = [op |-> "endOperation"]]
    /\ UNCHANGED beyondMonitor

\* clearMetrics()
ClearMetrics ==
    /\ pm' = [pm EXCEPT !.metrics = <<>>, !.last = [op |-> "clearMetrics"]]
    /\ UNCHANGED beyondMonitor

\* getAnalytics() is called, from an empty call stack.
GetAnalytics ==
    /\ pm' = [pm EXCEPT !.last = [op |-> "getAnalytics",
                                  result |-> getAnalytics(pm.metrics, 1)]]
    /\ UNCHANGED beyondMonitor

----------------------------------------------------------------------------
\* The classes a model does not use stay as they are constructed.
NoCache == Construct([maxSize |-> 0, ttl |-> 0])

Quiet(used) ==
    /\ "cache" \in used \/ NoCache
    /\ "aq" \in used \/ aq = NoQueue
    /\ "au" \in used \/ au = NoArray
    /\ "rh" \in used \/ rh = NoRetry
    /\ "cb" \in used \/ cb = NoBreaker
    /\ "rl" \in used \/ rl = NoLimiter
    /\ "ee" \in used \/ ee = EventEmitter
    /\ "rs" \in used \/ rs = NoStream
    /\ "ah" \in used \/ ah = NoApi
    /\ "pm" \in used \/ pm = PerformanceMonitor

OnlyCache == Quiet({"cache"})

OnlyQueue == Quiet({"aq"})

OnlyArray == Quiet({"au"})

OnlyRetry == Quiet({"rh"})

OnlyBreaker == Quiet({"cb"})

OnlyLimiter == Quiet({"rl"})

OnlyEmitter == Quiet({"ee"})

OnlyStream == Quiet({"rs"})

OnlyApi == Quiet({"ah"})

OnlyMonitor == Quiet({"pm"})

InitQueue ==
    /\ OnlyQueue
    /\ \E options \in QueueOptions : aq = AsyncQueue(options)

NextQueue ==
    \/ \E i \in TaskIds : Add(i)
    \/ \E i \in TaskIds : TaskResolves(i)
    \/ \E i \in TaskIds : TaskRejects(i)
    \/ \E i \in TaskIds : TimeoutFires(i)
    \/ \E i \in TaskIds : StaleSettles(i)
    \/ \E i \in TaskIds : BackoffEnds(i)

SpecQueue == InitQueue /\ [][NextQueue]_vars

\* drain() among add, pause, resume, clear and setConcurrency.  Every attempt
\* settles or times out, every sleep ends, and a paused queue is resumed.
InitDrain ==
    /\ OnlyQueue
    /\ \E options \in DrainOptions : aq = AsyncQueue(options)

NextDrain ==
    \/ \E i \in 1..MaxDrainTasks : Add(i)
    \/ \E i \in TaskIds : TaskResolves(i)
    \/ \E i \in TaskIds : TaskRejects(i)
    \/ \E i \in TaskIds : TimeoutFires(i)
    \/ \E i \in TaskIds : StaleSettles(i)
    \/ \E i \in TaskIds : BackoffEnds(i)
    \/ DelayEnds
    \/ Pause
    \/ Resume
    \/ ClearQueue
    \/ \E concurrency \in {1, 2} : SetConcurrency(concurrency)
    \/ Drain
    \/ DrainPolls

SpecDrain ==
    /\ InitDrain
    /\ [][NextDrain]_vars
    /\ \A i \in TaskIds : WF_vars(TaskResolves(i) \/ TaskRejects(i) \/ TimeoutFires(i))
    /\ \A i \in TaskIds : WF_vars(BackoffEnds(i))
    /\ WF_vars(DelayEnds)
    /\ WF_vars(aq.paused /\ Resume)
    /\ WF_vars(DrainPolls)

----------------------------------------------------------------------------
(* chunk: every array of at most MaxLength elements, every size from 1 to   *)
(* MaxChunkSize                                                             *)

InitChunk ==
    /\ OnlyArray
    /\ \E arr \in Arrays(MaxLength), size \in 1..MaxChunkSize :
           au = [arr |-> arr, size |-> size, called |-> FALSE, chunks |-> <<>>]

NextChunk == Chunk

SpecChunk == InitChunk /\ [][NextChunk]_vars

----------------------------------------------------------------------------
(* Retries: calls of execute whose function fails with either error *)

InitRetry ==
    /\ OnlyRetry
    /\ \E options \in RetryOptions : rh = RetryHandler(options)

NextRetry ==
    \/ \E c \in CallIds : RetryExecute(c)
    \/ \E c \in CallIds : RetryFnResolves(c)
    \/ \E c \in CallIds, error \in Errors : RetryFnRejects(c, error)
    \/ \E c \in CallIds : RetrySleepEnds(c)

SpecRetry == InitRetry /\ [][NextRetry]_vars

----------------------------------------------------------------------------
(* Requests: calls of get that may overlap, requests that succeed or fail *)

InitApi ==
    /\ OnlyApi
    /\ ah = APIHelper

NextApi ==
    \/ \E c \in GetIds, url \in ApiUrls, options \in GetOptions : ApiGet(c, url, options)
    \/ \E r \in GetIds, data \in ApiData : RequestResolves(r, data)
    \/ \E r \in GetIds : RequestRejects(r)
    \/ ApiTick

SpecApi == InitApi /\ [][NextApi]_vars

----------------------------------------------------------------------------
(* Analytics: operations are measured, the metrics are cleared and read *)

InitMonitor ==
    /\ OnlyMonitor
    /\ pm = PerformanceMonitor

NextMonitor ==
    \/ \E name \in OperationNames : StartOperation(name)
    \/ \E name \in OperationNames, executionTime \in ExecutionTimes :
           EndOperation(name, executionTime)
    \/ ClearMetrics
    \/ GetAnalytics

SpecMonitor == InitMonitor /\ [][NextMonitor]_vars

----------------------------------------------------------------------------
(* Overrides: calls of executeWithOptions that may overlap *)

NextOverride ==
    \/ \E c \in CallIds, options \in WithOptions : ExecuteWithOptions(c, options)
    \/ \E c \in CallIds : RetryFnResolves(c)
    \/ \E c \in CallIds, error \in Errors : RetryFnRejects(c, error)
    \/ \E c \in CallIds : RetrySleepEnds(c)

SpecOverride == InitRetry /\ [][NextOverride]_vars

----------------------------------------------------------------------------
(* The circuit breaker: every configuration, calls that overlap *)

InitBreaker ==
    /\ OnlyBreaker
    /\ \E options \in BreakerOptions : cb = createCircuitBreaker(options)

NextBreaker ==
    \/ \E c \in CallIds : BreakerExecute(c)
    \/ \E c \in CallIds : BreakerFnResolves(c)
    \/ \E c \in CallIds : BreakerFnRejects(c)
    \/ BreakerReset
    \/ BreakerTick

SpecBreaker == InitBreaker /\ [][NextBreaker]_vars

----------------------------------------------------------------------------
(* The sliding window: limits of one and two requests, windows of one and   *)
(* two milliseconds                                                         *)

InitLimiter ==
    /\ OnlyLimiter
    /\ \E options \in LimiterOptions : rl = RateLimiter(options)

NextLimiter ==
    \/ Consume
    \/ IsAllowed
    \/ LimiterTick

SpecLimiter == InitLimiter /\ [][NextLimiter]_vars

----------------------------------------------------------------------------
(* Listeners: callbacks registered by on and once, some of which call off   *)
(* for another callback                                                     *)

InitEmitter == OnlyEmitter /\ ee = EventEmitter

NextEmitter ==
    \/ \E id \in ListenerIds, target \in {0} \cup ListenerIds :
          target # id /\ On(id, target)
    \/ \E id \in ListenerIds, target \in {0} \cup ListenerIds :
          target # id /\ Once(id, target)
    \/ \E id \in ListenerIds : Off(id)
    \/ Emit
    \/ RemoveAllListeners

SpecEmitter == InitEmitter /\ [][NextEmitter]_vars

\* The same with callbacks, registered by once, that emit the event.
NextOnce ==
    \/ \E id \in ListenerIds : On(id, 0)
    \/ \E id \in ListenerIds : Once(id, 0)
    \/ \E id \in ListenerIds : OnceEmitting(id)
    \/ \E id \in ListenerIds : Off(id)
    \/ Emit

SpecOnce == InitEmitter /\ [][NextOnce]_vars

----------------------------------------------------------------------------
(* The stream: connections that open, fail and close, messages sent while   *)
(* connected and while not                                                  *)

InitStream ==
    /\ OnlyStream
    /\ \E options \in StreamOptions : rs = RealtimeStream(options)

NextStream ==
    \/ StreamConnect
    \/ \E s \in SocketIds : SocketOpens(s)
    \/ \E s \in SocketIds : SocketCloses(s)
    \/ ReconnectFires
    \/ StreamDisconnect
    \/ StreamSend
    \/ FlushFires

SpecStream == InitStream /\ [][NextStream]_vars

----------------------------------------------------------------------------
(* Expiry: a cache of two keys whose entries live one tick *)

Init == Construct([maxSize |-> 2, ttl |-> 1]) /\ OnlyCache

Next ==
    \/ \E k \in Keys, v \in Values : Set(k, v, NoThird) /\ Within
    \/ \E k \in Keys : Get(k) /\ Within
    \/ Cleanup
    \/ Clear
    \/ Tick(MaxTime)

Spec == Init /\ [][Next]_vars

----------------------------------------------------------------------------
(* Tags and options: the third argument of set, invalidateByTag, delete *)

InitTags == Construct([maxSize |-> 0, ttl |-> 1]) /\ OnlyCache

NextTags ==
    \/ \E k \in Keys, third \in Thirds : Set(k, 1, third) /\ Within
    \/ \E k \in Keys : Get(k) /\ Within
    \/ \E tag \in Tags : InvalidateByTag(tag)
    \/ \E k \in Keys : Delete(k)
    \/ Tick(MaxTime)

SpecTags == InitTags /\ [][NextTags]_vars

\* Tag invalidation alone, on a cache with the default ttl (nothing expires).
InitInvalidate == Construct([maxSize |-> 0, ttl |-> 0]) /\ OnlyCache

NextInvalidate ==
    \/ \E k \in Keys, third \in Thirds : Set(k, 1, third) /\ Within
    \/ \E k \in Keys : Get(k) /\ Within
    \/ \E tag \in Tags : InvalidateByTag(tag)
    \/ Tick(MaxTimeSizes)

SpecInvalidate == InitInvalidate /\ [][NextInvalidate]_vars

\* Replaced tags: a key is first set with the tag t1, or with t1 and t2, and
\* every later set of it, which finds it stored, has the tag t2 alone.  A
\* stored key with two accesses in its history is then a replaced one.
NextRetag ==
    \/ \E k \in Keys, v \in Values, ts \in {{"t1"}, {"t1", "t2"}} :
          /\ ~Has(cache, k) /\ accessPatterns[k] = <<>>
          /\ Set(k, v, TagList(ts)) /\ Within
    \/ \E k \in Keys, v \in Values :
          /\ Has(cache, k)
          /\ Set(k, v, TagList({"t2"})) /\ Within
    \/ \E tag \in Tags : InvalidateByTag(tag)
    \/ Tick(MaxTimeSizes)

SpecRetag == InitInvalidate /\ [][NextRetag]_vars

\* A long history: one key, set when it is absent or when its history is at
\* the cap, and read up to MaxHits times.
NextHistory ==
    \/ /\ ~Has(cache, "a") \/ Len(accessPatterns["a"]) = MaxAccessHistory
       /\ Set("a", 1, NoThird)
    \/ GetHit("a") /\ hitCount' <= MaxHits
    \/ Tick(MaxTimeSizes)

SpecHistory == InitInvalidate /\ [][NextHistory]_vars

----------------------------------------------------------------------------
(* The sweeper: tagged and untagged entries that live one tick *)

NextCleanup ==
    \/ \E k \in Keys, third \in {NoThird, TagList({"t1"})} :
          Set(k, 1, third) /\ Within
    \/ \E k \in Keys : Get(k) /\ Within
    \/ Cleanup
    \/ Tick(MaxTime)

SpecCleanup == Init /\ [][NextCleanup]_vars

----------------------------------------------------------------------------
(* Statistics: getStats between the reads and writes of two keys *)

NextStats ==
    \/ \E k \in Keys, v \in Values : Set(k, v, NoThird) /\ Within
    \/ \E k \in Keys : Get(k) /\ Within
    \/ GetStats
    \/ Tick(MaxTimeSizes)

SpecStats == Init /\ [][NextStats]_vars

----------------------------------------------------------------------------
(* The budget: a store of one entry, values of one and two bytes *)

InitBudget == Construct([maxSize |-> 1, ttl |-> 0]) /\ OnlyCache

NextBudget ==
    \/ \E k \in Keys, v \in Values : Set(k, v, NoThird) /\ Within
    \/ \E k \in Keys : Get(k) /\ Within
    \/ Tick(MaxTimeSizes)

SpecBudget == InitBudget /\ [][NextBudget]_vars

----------------------------------------------------------------------------
(* Capacity: every maxSize option, more keys than the store holds *)

InitSizes == \E m \in MaxSizeOptions : Construct([maxSize |-> m, ttl |-> 0]) /\ OnlyCache

NextSizes ==
    \/ \E k \in SizeKeys : Set(k, 1, NoThird) /\ Within
    \/ \E entries \in Batches(SizeKeys, {1}) : Mset(entries) /\ Within
    \/ Tick(MaxTimeSizes)

SpecSizes == InitSizes /\ [][NextSizes]_vars

\* The same caches when every set is awaited before the next call.
NextSequential ==
    \/ \E k \in SizeKeys : Set(k, 1, NoThird) /\ Within
    \/ Tick(MaxTimeSizes)

SpecSequential == InitSizes /\ [][NextSequential]_vars

----------------------------------------------------------------------------
(* Eviction batches: six keys for a store of five *)

InitEvict == Construct([maxSize |-> 5, ttl |-> 0]) /\ OnlyCache

NextEvict ==
    \/ \E k \in EvictKeys : Set(k, 1, NoThird) /\ Within
    \/ \E entries \in Batches({"e", "f"}, {1}) : Mset(entries) /\ Within

SpecEvict == InitEvict /\ [][NextEvict]_vars

----------------------------------------------------------------------------
(* The scenario of the design's tests: capacity 3; set a, b, c; read a and b *)
(* three times each; set d.  Time passes between the calls.                 *)

InitScenario == Construct([maxSize |-> 3, ttl |-> 0]) /\ OnlyCache

Reads(k) == IF Has(cache, k) THEN Lookup(cache, k).accessCount ELSE 0

NextScenario ==
    \/ cache = <<>> /\ accessPatterns["a"] = <<>> /\ Set("a", 1, NoThird)
    \/ KeysOf(cache) = {"a"} /\ Set("b", 1, NoThird)
    \/ KeysOf(cache) = {"a", "b"} /\ Set("c", 1, NoThird)
    \/ \E k \in {"a", "b"} :
          KeysOf(cache) = {"a", "b", "c"} /\ Reads(k) < 3 /\ GetHit(k)
    \/ /\ KeysOf(cache) = {"a", "b", "c"}
       /\ Reads("a") = 3 /\ Reads("b") = 3
       /\ Set("d", 1, NoThird)
    \/ ~Has(cache, "d") /\ Tick(MaxTime)

SpecScenario == InitScenario /\ [][NextScenario]_vars

----------------------------------------------------------------------------
(* Equal scores: capacity 3; set a, set b, set a again (a keeps its place   *)
(* in the Map and gets a new timestamp), read b at most once, set c, and    *)
(* set d five ticks after a was replaced.  For the ages of these runs the   *)
(* doubles of the code are in the same order, ties included, as the         *)
(* fractions of ScoreNum.                                                   *)

InitTies == Construct([maxSize |-> 3, ttl |-> 0]) /\ OnlyCache

NextTies ==
    \/ \E v \in Values :
          cache = <<>> /\ accessPatterns["a"] = <<>> /\ Set("a", v, NoThird)
    \/ \E v \in Values : KeysOf(cache) = {"a"} /\ Set("b", v, NoThird)
    \/ \E v \in Values :
          /\ KeysOf(cache) = {"a", "b"}
          /\ Len(accessPatterns["a"]) = 1 /\ Reads("b") = 0
          /\ Set("a", v, NoThird)
    \/ /\ KeysOf(cache) = {"a", "b"}
       /\ Len(accessPatterns["a"]) = 2 /\ Reads("b") = 0
       /\ GetHit("b")
    \/ \E v \in Values :
          /\ KeysOf(cache) = {"a", "b"}
          /\ Len(accessPatterns["a"]) = 2
          /\ Set("c", v, NoThird)
    \/ /\ KeysOf(cache) = {"a", "b", "c"}
       /\ now = Lookup(cache, "a").timestamp + 5
       /\ Set("d", 1, NoThird)
    \/ ~Has(cache, "d") /\ Tick(MaxTimeTies)

SpecTies == InitTies /\ [][NextTies]_vars

----------------------------------------------------------------------------
(* The claims *)

Carries(e, tag) == e.tags.kind = "tags" /\ tag \in e.tags.tags

\* C1: after every set of a run of sets that do not overlap, the number of
\* stored entries is at most maxSize.
CapacityAfterSet == last.op = "set" => Len(cache) <= maxSize

\* The same for the caches whose maxSize is positive.
CapacityAfterSetPositive == (maxSize > 0 /\ last.op = "set") => Len(cache) <= maxSize

\* C2: get never returns a value for an entry whose age exceeds the ttl,
\* whether or not cleanup has run; it returns undefined.
ExpiredNeverReturned ==
    [][\A k \in Keys :
         (/\ last'.op = "get" /\ last'.key = k
          /\ Has(cache, k)
          /\ now - Lookup(cache, k).timestamp > ttl)
         => last'.ret = Undefined]_vars

ExpiredGetSeen ==
    /\ last.op = "get" /\ last.path = "expired" /\ last.ret = Undefined
    /\ accessPatterns[last.key] # <<>>

CapacityAfterMset == (maxSize > 0 /\ last.op = "mset") => Len(cache) <= maxSize

\* C5: after invalidateByTag(tag) returns, no stored entry carries tag and get
\* returns undefined for every key whose entry carried tag before the call.
InvalidateRemovesTagged ==
    [][(last'.op = "invalidateByTag" /\ last'.path = "returned")
        => /\ \A i \in 1..Len(cache') : ~Carries(cache'[i], last'.key)
           /\ \A k \in Keys :
                (Has(cache, k) /\ Carries(Lookup(cache, k), last'.key))
                => GetValue(cache', k, now', ttl') = Undefined]_vars

\* An invalidateByTag that returned after deleting two entries.
InvalidateSeen ==
    /\ last.op = "invalidateByTag" /\ last.path = "returned"
    /\ last.deleted = 2

\* C7: every key with access history in accessPatterns has an entry in the store.
TrackerWithinStore == \A k \in AllKeys : accessPatterns[k] # <<>> => Has(cache, k)

\* C9: a ttl passed in the options of set applies to that entry: get finds the
\* entry expired exactly when its age exceeds that ttl.
OptionTtlApplies ==
    [][\A k \in Keys :
         (/\ last'.op = "get" /\ last'.key = k
          /\ Has(cache, k)
          /\ Lookup(cache, k).tags.kind = "options")
         => (last'.ret = Undefined
               <=> now - Lookup(cache, k).timestamp > Lookup(cache, k).tags.ttl)]_vars

\* C10: delete(key) on a stored key returns true and removes the entry with
\* its access history; a second delete then returns false.
DeleteRemoves ==
    [][(last'.op = "delete" /\ Has(cache, last'.key))
        => /\ last'.path = "returned"
           /\ last'.ret = Some(TRUE)
           /\ ~Has(cache', last'.key)
           /\ accessPatterns'[last'.key] = <<>>]_vars

ScenarioEvictsC ==
    (last.op = "set" /\ last.key = "d")
    => /\ KeysOf(cache) = {"a", "b", "d"}
       /\ \A k \in {"a", "b", "d"} : GetValue(cache, k, now, ttl) # Undefined
       /\ GetValue(cache, "c", now, ttl) = Undefined

\* C11: a set whose value is larger than the whole budget (maxSize) is rejected
\* with ValueTooLarge and leaves the store as it was: nothing evicted, nothing
\* inserted.
ValueTooLargeRejected ==
    [][\A k \in Keys, v \in Values :
         (Set(k, v, NoThird) /\ calculateSize(v) > maxSize)
         => /\ last'.path = "ValueTooLarge"
            /\ cache' = cache
            /\ accessPatterns' = accessPatterns]_vars

\* C12: no constructed cache holds a maxSize or a ttl that is zero or negative.
PositiveConfiguration == maxSize > 0 /\ ttl > 0

\* C13: a get that returns a value adds one to the entry's accessCount, sets
\* its lastAccessed to now, appends one access (now) to the key's history and
\* adds one to hitCount; every other entry, every other history and missCount
\* stay as they were.
HitEffects ==
    [][\A k \in Keys :
         (last'.op = "get" /\ last'.key = k /\ last'.ret # Undefined)
         => /\ Has(cache, k) /\ Has(cache', k)
            /\ Lookup(cache', k) =
                  [Lookup(cache, k) EXCEPT !.accessCount = @ + 1, !.lastAccessed = now]
            /\ Len(accessPatterns[k]) < MaxAccessHistory
                  => accessPatterns'[k] = Append(accessPatterns[k], now)
            /\ \A j \in AllKeys \ {k} : accessPatterns'[j] = accessPatterns[j]
            /\ hitCount' = hitCount + 1
            /\ missCount' = missCount
            /\ Len(cache') = Len(cache)
            /\ \A i \in 1..Len(cache) : cache[i].key # k => cache'[i] = cache[i]]_vars

\* The second hit of the cache, on an entry written after the first one,
\* with another entry in the store.
HitSeen ==
    /\ last.op = "get" /\ last.path = "hit"
    /\ Len(cache) = 2
    /\ hitCount = 2
    /\ Lookup(cache, last.key).accessCount = 1
    /\ Lookup(cache, last.key).timestamp > 0

\* C14: a get that misses adds one to missCount and leaves hitCount and every
\* other entry as they were; it removes the entry of its key when that entry
\* had expired, and changes nothing else when the key was absent.
MissEffects ==
    [][\A k \in Keys :
         (last'.op = "get" /\ last'.key = k /\ last'.ret = Undefined)
         => /\ missCount' = missCount + 1
            /\ hitCount' = hitCount
            /\ ~Has(cache', k)
            /\ cache' = SelectSeq(cache, LAMBDA e : e.key # k)
            /\ ~Has(cache, k) => accessPatterns' = accessPatterns]_vars

\* A get that found its entry expired and removed it, the second miss, with
\* another entry left in the store.
ExpiredPurgeSeen ==
    /\ last.op = "get" /\ last.path = "expired"
    /\ Len(cache) = 1
    /\ missCount = 2

\* C15: a cleanup tick removes exactly the entries with now - timestamp > ttl
\* and their access history; every other entry (its tags included), every
\* other history, hitCount and missCount stay as they were.
SweepExact ==
    [][last'.op = "cleanup"
        => /\ cache' = SelectSeq(cache, LAMBDA e : ~(now - e.timestamp > ttl))
           /\ \A k \in AllKeys :
                accessPatterns'[k] =
                  IF Has(cache, k) /\ now - Lookup(cache, k).timestamp > ttl
                  THEN <<>> ELSE accessPatterns[k]
           /\ hitCount' = hitCount
           /\ missCount' = missCount]_vars

\* A cleanup that removed one entry and left a tagged one.
SweepSeen ==
    /\ last.op = "cleanup" /\ last.deleted = 1
    /\ Len(cache) = 1
    /\ cache[1].tags.kind = "tags"

\* C16: invalidateByTag returns the number of entries it removed (0 for a tag
\* that no entry carries).
InvalidateReturnsCount ==
    [][(last'.op = "invalidateByTag" /\ last'.path = "returned")
        => last'.ret = Some(Len(cache) - Len(cache'))]_vars

\* C18: getStats changes nothing: the entries and their order, the access
\* histories, hitCount and missCount are the same after the call.
StatsNoSideEffects ==
    [][last'.op = "getStats"
        => /\ cache' = cache
           /\ accessPatterns' = accessPatterns
           /\ hitCount' = hitCount
           /\ missCount' = missCount]_vars

\* A getStats whose topKeys starts with the second entry of the Map, the one
\* read more often.
StatsSeen ==
    /\ last.op = "getStats"
    /\ Len(cache) = 2
    /\ cache[1].accessCount < cache[2].accessCount
    /\ last.ret[1].topKeys[1] = cache[2].key

\* C19: hitCount and missCount never decrease.
CountersMonotone ==
    [][hitCount' >= hitCount /\ missCount' >= missCount]_vars

\* C17: when an evicted entry and an entry that stays have equal scores, the
\* evicted one is not the newer of the two (timestamp is the creation time,
\* renewed when set replaces the entry of a stored key).
TiesEvictOldest ==
    [][(last'.op = "set" /\ last'.path = "evicted")
        => \A i, j \in 1..Len(cache) :
             (/\ ~Has(cache', cache[i].key)
              /\ Has(cache', cache[j].key) /\ cache[j].key # last'.key
              /\ ScoreNum(cache[i], accessPatterns, now) * (cache[j].accessCount + 1)
                   = ScoreNum(cache[j], accessPatterns, now) * (cache[i].accessCount + 1))
             => cache[i].timestamp <= cache[j].timestamp]_vars

\* C20: the task functions that AsyncQueue has invoked and whose promise has
\* not settled, those of timed-out attempts and of retries included, are
\* never more than maxConcurrency.
ConcurrencyBound == Unsettled(aq) <= aq.maxConcurrency

RECURSIVE Concat(_)
Concat(lists) == IF lists = <<>> THEN <<>> ELSE Head(lists) \o Concat(Tail(lists))

\* C22: chunk(arr, size) with size >= 1 returns slices whose concatenation is
\* arr; each but the last has size elements, the last has from 1 to size, and
\* an empty array gives no slice.
ChunkPartitions ==
    au.called =>
        /\ Concat(au.chunks) = au.arr
        /\ \A n \in 1..(Len(au.chunks) - 1) : Len(au.chunks[n]) = au.size
        /\ au.chunks # <<>> =>
               /\ Len(au.chunks[Len(au.chunks)]) >= 1
               /\ Len(au.chunks[Len(au.chunks)]) <= au.size
        /\ au.arr = <<>> => au.chunks = <<>>

\* The call of the test, chunk of five elements by 2: two full slices and a
\* last slice of one element.
ChunkSeen ==
    /\ au.called /\ Len(au.arr) = 5 /\ au.size = 2
    /\ Len(au.chunks) = 3 /\ Len(au.chunks[3]) = 1

\* C23: a set evicts only when the insertion would take the number of entries
\* above maxSize: a set of a key that is stored, in a full store, deletes no
\* entry, and neither does a set into a store that is not full.
EvictsOnlyOnOverflow ==
    [][\A k \in AllKeys :
         (/\ last'.op = "set" /\ last'.key = k
          /\ maxSize > 0
          /\ Has(cache, k) \/ Len(cache) < maxSize)
         => /\ last'.deleted = 0
            /\ \A j \in KeysOf(cache) : Has(cache', j)]_vars

\* C24: once set has replaced a key's entry, the tags of the old entry no
\* longer apply: invalidateByTag of t1, which only the old entry carried,
\* keeps the key, and invalidateByTag of t2, the new entry's tag, removes it.
ReplacedTagsDropped ==
    [][\A k \in Keys :
         (/\ last'.op = "invalidateByTag"
          /\ Has(cache, k) /\ Len(accessPatterns[k]) >= 2)
         => (Has(cache', k) <=> last'.key = "t1")]_vars

\* invalidateByTag of t1 removed a key still under its first entry and kept
\* a replaced one.
RetagSeen ==
    /\ last.op = "invalidateByTag" /\ last.key = "t1" /\ last.deleted = 1
    /\ \E k \in Keys : Has(cache, k) /\ Len(accessPatterns[k]) = 2

\* C25: the history of a key never holds more than 100 accesses, and a set
\* or a get that returns a value, finding 100, drops the oldest and appends
\* its own.
HistoryCapped ==
    /\ [](\A k \in AllKeys : Len(accessPatterns[k]) <= 100)
    /\ [][\A k \in AllKeys :
            (/\ Len(accessPatterns[k]) = 100
             /\ last'.key = k
             /\ last'.op = "set" \/ (last'.op = "get" /\ last'.ret # Undefined))
            => accessPatterns'[k] = Append(Tail(accessPatterns[k]), now)]_vars

\* After the set at time 0 and more than 100 reads, the history holds 100
\* accesses, all of time 1: the accesses of time 0 were dropped.
HistoryFullSeen ==
    /\ Has(cache, "a") /\ Lookup(cache, "a").timestamp = 0
    /\ hitCount > 100
    /\ Len(accessPatterns["a"]) = 100
    /\ accessPatterns["a"][1] = 1

\* C26: when fn fails with an error that retryCondition refuses, execute
\* rejects with that error and does not invoke fn again.
NonRetryableRejects ==
    [][\A c \in CallIds :
         (/\ rh'.call[c].failures = rh.call[c].failures + 1
          /\ ~defaultRetryCondition(rh'.call[c].lastError))
         => /\ rh'.call[c].phase = "rejected"
            /\ rh'.call[c].invoked = rh.call[c].invoked]_vars

\* C27: execute, called while the breaker is OPEN and at most resetTimeout
\* after lastFailureTime, throws 'Circuit breaker is OPEN' and invokes nothing.
OpenRejects ==
    [][(/\ cb'.last.op = "execute"
        /\ cb.state = "OPEN"
        /\ cb.now - cb.lastFailureTime <= cb.resetTimeout)
       => /\ cb'.last.outcome = "Circuit breaker is OPEN"
          /\ cb'.call = cb.call
          /\ cb'.state = "OPEN"]_vars

\* A call refused exactly resetTimeout after the failure that opened a
\* breaker whose monitoring period is shorter.
OpenRejectSeen ==
    /\ cb.last.op = "execute" /\ cb.last.outcome = "Circuit breaker is OPEN"
    /\ cb.now - cb.lastFailureTime = cb.resetTimeout
    /\ cb.monitoringPeriod < cb.resetTimeout

\* C28: a call that fails while the breaker is HALF_OPEN leaves it OPEN.
HalfOpenFailureOpens ==
    [][(/\ cb'.last.op = "settle" /\ cb'.last.outcome = "rejected"
        /\ cb.state = "HALF_OPEN")
       => cb'.state = "OPEN"]_vars

\* The requests allowed at times in (t - windowMs, t].
GrantedIn(l, t) ==
    Cardinality({i \in 1..Len(l.granted) :
                    l.granted[i] > t - l.windowMs /\ l.granted[i] <= t})

EmitInvokesAll == ee.last.op = "emit" => ee.last.invoked = ee.last.registered

\* C31: a listener registered by once is invoked at most once: an emit
\* invokes it at most one time, its own emit of the event included, and
\* leaves it unregistered when it invoked it.
OnceInvokedOnce ==
    [][ee'.last.op = "emit"
       => \A i \in 1..Len(ee.events) :
            ee.events[i].once
            => /\ Count(ee'.last.invoked, ee.events[i].id) <= 1
               /\ Count(ee'.last.invoked, ee.events[i].id) = 1
                     => ~Registered(ee'.events, ee.events[i].id)]_vars

\* C32: when the queue is not left paused and every attempt settles or times
\* out, the promise of every add() settles, whatever pause, resume, clear and
\* setConcurrency do in between.
AddSettles ==
    \A i \in TaskIds :
        (aq.task[i].phase # "new") ~> (aq.task[i].phase \in {"resolved", "rejected"})

\* C33: from disconnect() until the caller calls connect() again the stream
\* creates no WebSocket and schedules no reconnect.
DisconnectStays ==
    [][(rs.disconnected /\ rs'.disconnected)
       => /\ rs'.created = rs.created
          /\ rs'.reconnects <= rs.reconnects]_vars

\* C35: when no call of executeWithOptions is in flight, maxRetries, baseDelay
\* and retryCondition are what they were before the first call.
OptionsRestored ==
    (\A c \in CallIds : rh.call[c].phase \notin {"running", "sleeping"})
        => Fields(rh) = rh.constructed

\* C34: the messages reach the socket in the order of the calls of send().
SendOrderKept ==
    \A i, j \in 1..Len(rs.wire) : i < j => rs.wire[i] < rs.wire[j]

\* A call of get made while a request for its key was in flight made no
\* request of its own.
JoinsRequest ==
    \A c \in GetIds :
        (ah.call[c].phase = "new" /\ ah'.call[c].phase # "new"
         /\ ah'.call[c].inflight # 0) => ah'.issued = ah.issued

\* The settled call c has the outcome of the request that was in flight
\* when it was made.
SameOutcome(c) ==
    LET request == ah.request[ah.call[c].inflight]
    IN  /\ request.phase = ah.call[c].phase
        /\ ah.call[c].phase = "resolved" => ah.call[c].data = request.data

\* requestQueue holds only requests that have not settled.
QueueHoldsPending ==
    \A k \in ApiKeys :
        ah.requestQueue[k] # 0 => ah.request[ah.requestQueue[k]].phase = "pending"

\* C36: a get whose key has a request in flight issues no request and settles
\* with the outcome of that request; a settled request is not in requestQueue.
InFlightShared ==
    [][/\ JoinsRequest
       /\ \A c \in GetIds :
              (ah'.call[c].phase \in {"resolved", "rejected"} /\ ah'.call[c].inflight # 0)
                  => SameOutcome(c)'
       /\ QueueHoldsPending']_vars

\* C36, amended: a get whose key has a request in flight issues no request
\* and, unless a fresh truthy cache entry answers it at once, settles with the
\* outcome of that request; a settled request is not in requestQueue.
InFlightSharedUnlessCached ==
    [][/\ JoinsRequest
       /\ \A c \in GetIds :
              (ah'.call[c].phase \in {"resolved", "rejected"} /\ ah'.call[c].inflight # 0
               /\ ah'.call[c].request # 0)
                  => SameOutcome(c)'
       /\ QueueHoldsPending']_vars

\* A second get joined a request in flight, the request has resolved, both
\* calls have its data and the key has left requestQueue.
SharedSeen ==
    \E c, d \in GetIds :
        /\ ah.call[c].owner /\ ~ah.call[d].owner
        /\ ah.call[d].inflight = ah.call[c].request /\ ah.call[d].inflight # 0
        /\ ah.call[d].request = ah.call[d].inflight
        /\ ah.call[c].phase = "resolved" /\ ah.call[d].phase = "resolved"
        /\ ah.call[d].data = ah.call[c].data
        /\ ah.requestQueue[ah.call[d].key] = 0

\* C37: getAnalytics() returns, and the summary it returns counts the
\* recorded metrics.
AnalyticsReturns ==
    pm.last.op = "getAnalytics"
        => /\ pm.last.result.threw = "nothing"
           /\ pm.last.result.summary.totalOperations = Len(pm.metrics)

====
